---- MODULE Spec2Model ----
(***************************************************************************)
(* Model of uni-reminder-bot: the reminder table (backend/data.rs), the    *)
(* timer tasks and command handlers (commands/reminder.rs) and the         *)
(* snapshot loop (main.rs).                                                *)
(*                                                                         *)
(* Time.  Timestamps are whole Unix seconds, as Timestamp::timestamp()     *)
(* gives them.  The variable now is the floor of the wall clock, and the   *)
(* wall clock itself is taken to lie strictly between two whole seconds.   *)
(* So  chrono::Utc::now().timestamp()  is  now,  and                       *)
(* (UNIX_EPOCH + due).duration_since(SystemTime::now())  is Ok exactly     *)
(* when  due > now.  A sleeping task whose sleep has elapsed runs before   *)
(* the clock moves on, and a command handler or a fire sequence, once      *)
(* begun, ends before the clock shows the next second.                     *)
(***************************************************************************)
EXTENDS Integers, Sequences, FiniteSets, TLC

----------------------------------------------------------------------------
(* Bounds of the model *)

\* add commands received
MaxAdds == 2

\* remove commands received
MaxRemoves == 1

\* advances of the clock
MaxTicks == 2

\* the most characters add accepts in a reminder's text
MaxTextLen == 4096

\* command handlers that can be in flight at once
Handlers == 1..2

\* (guild, channel) pairs
Locs == {"A", "B"}

----------------------------------------------------------------------------
(* Calendar arithmetic of chrono's NaiveDateTime (proleptic Gregorian)     *)

\* days since 1970-01-01 of a civil date
DaysFromCivil(y, m, d) ==
    LET yy  == IF m <= 2 THEN y - 1 ELSE y
        era == yy \div 400
        yoe == yy - era * 400
        mp  == IF m > 2 THEN m - 3 ELSE m + 9
        doy == (153 * mp + 2) \div 5 + d - 1
        doe == yoe * 365 + yoe \div 4 - yoe \div 100 + doy
    IN  era * 146097 + doe - 719468

\* civil date <<year, month, day>> of a count of days since 1970-01-01
CivilFromDays(z0) ==
    LET z   == z0 + 719468
        era == z \div 146097
        doe == z - era * 146097
        yoe == (doe - doe \div 1460 + doe \div 36524 - doe \div 146096) \div 365
        doy == doe - (365 * yoe + yoe \div 4 - yoe \div 100)
        mp  == (5 * doy + 2) \div 153
        d   == doy - (153 * mp + 2) \div 5 + 1
        m   == IF mp < 10 THEN mp + 3 ELSE mp - 9
        y   == yoe + era * 400 + (IF m <= 2 THEN 1 ELSE 0)
    IN  <<y, m, d>>

IsLeapYear(y) == (y % 4 = 0 /\ y % 100 # 0) \/ y % 400 = 0

DaysInMonth(y, m) ==
    IF m = 2 THEN (IF IsLeapYear(y) THEN 29 ELSE 28)
    ELSE IF m \in {4, 6, 9, 11} THEN 30 ELSE 31

\* NaiveDateTime::checked_add_days: the date n days after the civil date of
\* ts, with the time of day of ts
AddDaysWithinMonth(ts, n) ==
    LET days == ts \div 86400
        secs == ts % 86400
        ymd  == CivilFromDays(days)
        dmax == DaysInMonth(ymd[1], ymd[2])
        day  == IF ymd[3] + n > dmax THEN dmax ELSE ymd[3] + n
    IN  DaysFromCivil(ymd[1], ymd[2], day) * 86400 + secs

checked_add_days(ts, n) ==
    LET days == ts \div 86400
        secs == ts % 86400
        ymd  == CivilFromDays(days)
        then == CivilFromDays(DaysFromCivil(ymd[1], ymd[2], ymd[3]) + n)
    IN  DaysFromCivil(then[1], then[2], then[3]) * 86400 + secs

\* NaiveDateTime::checked_add_months: the same day of the month n months
\* later, clamped to the last day of that month; the time of day is kept
checked_add_months(ts, n) ==
    LET days  == ts \div 86400
        secs  == ts % 86400
        ymd   == CivilFromDays(days)
        total == ymd[2] - 1 + (n % 12)
        year  == ymd[1] + n \div 12 + (IF total >= 12 THEN 1 ELSE 0)
        month == (total % 12) + 1
        dmax  == DaysInMonth(year, month)
        day   == IF ymd[3] > dmax THEN dmax ELSE ymd[3]
    IN  DaysFromCivil(year, month, day) * 86400 + secs

----------------------------------------------------------------------------
(* backend/data.rs: Interval, Repeat, Reminder                             *)

Interval == {"FiveMinutesly", "Hourly", "Daily", "Weekly", "Monthly", "Yearly"}

\* Option<Repeat> is flattened into the reminder: interval "None" is the
\* non-repeating reminder, and index is the Repeat's index
NoRepeat == "None"

\* the clock when the process starts: 2024-01-31T00:00:00Z
StartTime == DaysFromCivil(2024, 1, 31) * 86400

\* the target instants a user may give to the add command
Targets == {StartTime + 60}

\* the instant s seconds into the civil day y-m-d
At(y, m, d, s) == DaysFromCivil(y, m, d) * 86400 + s

\* target instants at the end of a month, on a leap day, the day before
\* one, at the last second of a year and in the middle of a month
Anchors ==
    {StartTime + 60, At(2024, 2, 28, 0), At(2024, 2, 29, 43200),
     At(2024, 3, 15, 3600), At(2024, 12, 31, 86399)}


\* Repeat::increment_index; the index stays far below u32::MAX here
increment_index(index) == index + 1

\* Repeat::next: the due instant of occurrence number index
NextCountsFromOne(interval, index, timestamp) ==
    CASE interval = "FiveMinutesly" -> timestamp + 300 * (index + 1)
      [] interval = "Hourly"        -> timestamp
      [] interval = "Daily"         -> checked_add_days(timestamp, index + 1)
      [] interval = "Weekly"        -> checked_add_days(timestamp, 7 * (index + 1))
      [] interval = "Monthly"       -> checked_add_months(timestamp, index + 1)
      [] interval = "Yearly"        -> checked_add_months(timestamp, 12 * (index + 1))
      [] OTHER                      -> timestamp

next(interval, index, timestamp) ==
    CASE interval = "FiveMinutesly" -> timestamp + 300 * index
      [] interval = "Hourly"        -> timestamp
      [] interval = "Daily"         -> checked_add_days(timestamp, index)
      [] interval = "Weekly"        -> checked_add_days(timestamp, 7 * index)
      [] interval = "Monthly"       -> checked_add_months(timestamp, index)
      [] interval = "Yearly"        -> checked_add_months(timestamp, 12 * index)
      [] OTHER                      -> timestamp

\* A reminder: meta stands for the fields that are no part of its identity
\* (registered_at, registered_by, name, roles, description); it is the
\* number of the add command that built it, 0 for one loaded from disk
Reminder(target, interval, index, meta) ==
    [target_date |-> target, interval |-> interval, index |-> index, meta |-> meta]

NoReminder == Reminder(0, NoRepeat, 0, 0)

\* impl PartialEq / Hash for Repeat and Reminder: target_date and interval
ReminderEq(a, b) == a.target_date = b.target_date /\ a.interval = b.interval

\* the key a HashSet or HashMap files a reminder under
Key(r) == <<r.target_date, r.interval>>

\* the due instant schedule_reminder_message computes for a reminder
DueOf(r) ==
    IF r.interval = NoRepeat THEN r.target_date
    ELSE next(r.interval, r.index, r.target_date)

----------------------------------------------------------------------------
(* std HashSet<Reminder>                                                   *)

SetContains(set, r) == \E s \in set : ReminderEq(s, r)

\* HashSet::insert: keeps the stored value when an equal one is present
SetInsertAlways(set, r) == set \cup {r}

SetInsert(set, r) == IF SetContains(set, r) THEN set ELSE set \cup {r}

\* HashSet::remove
SetRemove(set, r) == {s \in set : ~ReminderEq(s, r)}

\* HashSet::replace: the new value takes the place of an equal one
SetReplace(set, r) == SetRemove(set, r) \cup {r}

\* impl PartialEq for HashSet: same length and every element contained
SetEq(a, b) == Cardinality(a) = Cardinality(b) /\ \A x \in a : SetContains(b, x)

----------------------------------------------------------------------------
(* backend/data.rs: ReminderTable, a map from location to a set            *)

\* ReminderTable::new
EmptyTable == [l \in {} |-> {}]

\* HashMap::remove of a location
MapRemove(tbl, loc) == [l \in DOMAIN tbl \ {loc} |-> tbl[l]]

\* HashMap::insert of a location
MapInsert(tbl, loc, set) == [l \in DOMAIN tbl \cup {loc} |-> IF l = loc THEN set ELSE tbl[l]]

\* ReminderTable::add_reminder
AddReminderReplaces(tbl, loc, r) ==
    IF loc \notin DOMAIN tbl
    THEN MapInsert(tbl, loc, {r})
    ELSE MapInsert(tbl, loc, SetReplace(tbl[loc], r))

add_reminder(tbl, loc, r) ==
    IF loc \notin DOMAIN tbl
    THEN MapInsert(tbl, loc, {r})
    ELSE MapInsert(tbl, loc, SetInsert(tbl[loc], r))

\* ReminderTable::remove_reminder: the result and the table afterwards
RemoveKeepsEmptySet(tbl, loc, r) ==
    IF loc \notin DOMAIN tbl
    THEN [res |-> "NoLocation", map |-> tbl]
    ELSE LET removed == SetContains(tbl[loc], r)
             rest    == SetRemove(tbl[loc], r)
         IN  CASE ~removed /\ rest # {} -> [res |-> "NotPresent", map |-> tbl]
               [] ~removed /\ rest = {} -> [res |-> "unreachable", map |-> tbl]
               [] OTHER                 -> [res |-> "Ok", map |-> MapInsert(tbl, loc, rest)]

RemoveMissDropsLocation(tbl, loc, r) ==
    IF loc \notin DOMAIN tbl
    THEN [res |-> "NoLocation", map |-> tbl]
    ELSE LET removed == SetContains(tbl[loc], r)
             rest    == SetRemove(tbl[loc], r)
         IN  CASE ~removed /\ rest # {} -> [res |-> "NotPresent", map |-> MapRemove(tbl, loc)]
               [] ~removed /\ rest = {} -> [res |-> "unreachable", map |-> tbl]
               [] removed /\ rest # {}  -> [res |-> "Ok", map |-> MapInsert(tbl, loc, rest)]
               [] OTHER                 -> [res |-> "Ok", map |-> MapRemove(tbl, loc)]

remove_reminder(tbl, loc, r) ==
    IF loc \notin DOMAIN tbl
    THEN [res |-> "NoLocation", map |-> tbl]
    ELSE LET removed == SetContains(tbl[loc], r)
             rest    == SetRemove(tbl[loc], r)
         IN  CASE ~removed /\ rest # {} -> [res |-> "NotPresent", map |-> tbl]
               [] ~removed /\ rest = {} -> [res |-> "unreachable", map |-> tbl]
               [] removed /\ rest # {}  -> [res |-> "Ok", map |-> MapInsert(tbl, loc, rest)]
               [] OTHER                 -> [res |-> "Ok", map |-> MapRemove(tbl, loc)]

\* derive(PartialEq) for ReminderTable: HashMap equality over HashSet equality
TableEq(a, b) ==
    /\ DOMAIN a = DOMAIN b
    /\ \A l \in DOMAIN a : SetEq(a[l], b[l])

----------------------------------------------------------------------------
(* State                                                                   *)

VARIABLES
    now,            \* the clock, in whole seconds
    adds,           \* add commands received so far
    removes,        \* remove commands received so far
    ticks,          \* advances of the clock so far
    map,            \* UserData.data: the ReminderTable behind its mutex
    tasks,          \* UserData.tasks: reminder key -> handle (a timer's number)
    timers,         \* the tasks tokio::spawn has made, in spawn order
    dataLock,       \* the handler holding the data mutex across steps, or 0
    dataPoisoned,   \* the data mutex is poisoned
    tasksPoisoned,  \* the tasks mutex is poisoned
    hs,             \* the command handlers in flight
    loaded_table,   \* the snapshot loop's last persisted table
    disk,           \* the file ./reminder_table
    snapAlive,      \* the snapshot loop has not panicked
    snapLog,        \* the latest turn of the snapshot loop: the table it
                    \* cloned, the one the turn before cloned, and whether
                    \* it called File::create
    cancelled,      \* the remove commands that completed
    panics          \* the panics that have happened

vars == <<now, adds, removes, ticks, map, tasks, timers, dataLock, dataPoisoned, tasksPoisoned,
          hs, loaded_table, disk, snapAlive, snapLog, cancelled, panics>>

TimerIds == 1..Len(timers)

IdleHandler == [pc |-> "idle", loc |-> "A", reminder |-> NoReminder, handle |-> 0]

\* a command is taken up by the first handler that is free
Free(h) == hs[h].pc = "idle" /\ \A g \in Handlers : g < h => hs[g].pc # "idle"

\* a task suspended in tokio::time::sleep
Sleeping(i) == timers[i].pc = "sleeping"

\* a task past its sleep that has not finished
InFlight(i) == timers[i].pc \in {"sent", "checked", "spawned"}

\* the completed remove commands that cover timer record t
CancelsOf(t) ==
    {c \in cancelled : c.loc = t.loc /\ c.key = Key(t.reminder) /\ t.reminder.meta <= c.upto}

----------------------------------------------------------------------------
(* main.rs: startup                                                        *)

\* the tables an earlier run can have saved to ./reminder_table
StoredTables ==
    { [l \in {"A"} |-> {Reminder(StartTime + 60, "Daily", 0, 0)}] }

NoFile == [ok |-> FALSE, table |-> EmptyTable]

\* a file that File::open or serde_cbor::from_reader fails on: table is what
\* an earlier run was writing when the file was cut short
CorruptFiles == {[ok |-> FALSE, table |-> t] : t \in StoredTables}

InitialDisks == {NoFile} \cup CorruptFiles \cup {[ok |-> TRUE, table |-> t] : t \in StoredTables}

\* load_data_from_path with main's fallback to ReminderTable::new()
LoadWhateverIsThere(d) == d.table

load_data_from_path(d) == IF d.ok THEN d.table ELSE EmptyTable

\* the state main reaches before the first command, tick or timer, given
\* the file it finds: nothing is armed and the tasks map is empty
Startup(file) ==
    /\ now = StartTime
    /\ adds = 0
    /\ removes = 0
    /\ ticks = 0
    /\ disk = file
    /\ map = load_data_from_path(file)
    /\ loaded_table = load_data_from_path(file)
    /\ tasks = [k \in {} |-> 0]
    /\ timers = <<>>
    /\ dataLock = 0
    /\ dataPoisoned = FALSE
    /\ tasksPoisoned = FALSE
    /\ hs = [h \in Handlers |-> IdleHandler]
    /\ snapAlive = TRUE
    /\ snapLog = <<>>
    /\ cancelled = {}
    /\ panics = {}

\* a first start: there is no file
Init == Startup(NoFile)

\* a start with any of the files
InitPersist == \E file \in InitialDisks : Startup(file)

----------------------------------------------------------------------------
(* commands/reminder.rs: schedule_reminder_message                         *)

\* the task tokio::spawn makes for a reminder
NewTimer(loc, r) ==
    [loc |-> loc, reminder |-> r, due |-> DueOf(r), pc |-> "sleeping",
     sentAt |-> 0, sentOk |-> FALSE, afterCancel |-> "no", handle |-> 0]

\* duration_since(SystemTime::now()) is Ok: the due instant is still ahead
ArmsWhateverTheDue(r) == TRUE

CanArm(r) == DueOf(r) > now

\* tasks.lock().unwrap().insert(reminder, handle): a handle already filed
\* under the key is dropped, which detaches its task and does not abort it
TasksInsert(t, r, handle) ==
    [k \in DOMAIN t \cup {Key(r)} |-> IF k = Key(r) THEN handle ELSE t[k]]

\* HashMap::remove of a key
TasksRemove(t, r) == [k \in DOMAIN t \ {Key(r)} |-> t[k]]

\* JoinHandle::abort: the task is dropped at its next await, and sleep is
\* the last await a task reaches before send_reminder returns
Abort(ts, i) ==
    IF ts[i].pc = "sleeping" THEN [ts EXCEPT ![i].pc = "aborted"] ELSE ts

----------------------------------------------------------------------------
(* commands/reminder.rs: the task spawned by schedule_reminder_message     *)

\* let _ = send_reminder(..).await: where the task stands once the send has
\* returned ok or not
StopsOnSendError(ok) == IF ok THEN "sent" ELSE "done"

AfterSend(ok) == "sent"

\* tokio::time::sleep(duration).await has returned: the clock is at the due
\* instant the duration was computed for, or past it
WakesAtOnce(i) == TRUE

SleepElapsed(i) == now >= timers[i].due

\* the sleep has elapsed and send_reminder runs; its result is discarded
Fire(i) ==
    /\ Sleeping(i)
    /\ SleepElapsed(i)
    /\ \E ok \in BOOLEAN :
         timers' = [timers EXCEPT
             ![i].pc = AfterSend(ok), ![i].sentAt = now, ![i].sentOk = ok,
             ![i].afterCancel =
                 IF \E c \in CancelsOf(timers[i]) : c.preDue THEN "preDue"
                 ELSE IF CancelsOf(timers[i]) # {} THEN "late" ELSE "no"]
    /\ UNCHANGED <<now, adds, removes, ticks, map, tasks, dataLock, dataPoisoned, tasksPoisoned, hs,
                   loaded_table, disk, snapAlive, snapLog, cancelled, panics>>

\* a non-repeating reminder: remove_reminder under the data lock, result discarded
FireRemove(i) ==
    /\ timers[i].pc = "sent"
    /\ timers[i].reminder.interval = NoRepeat
    /\ dataLock = 0
    /\ LET out == remove_reminder(map, timers[i].loc, timers[i].reminder) IN
       IF dataPoisoned
       THEN /\ timers' = [timers EXCEPT ![i].pc = "panicked", ![i].sentOk = FALSE]
            /\ panics' = panics \cup {"fire: data lock poisoned"}
            /\ UNCHANGED <<map, dataPoisoned>>
       ELSE IF out.res = "unreachable"
       THEN /\ timers' = [timers EXCEPT ![i].pc = "panicked", ![i].sentOk = FALSE]
            /\ panics' = panics \cup {"remove_reminder: unreachable"}
            /\ dataPoisoned' = TRUE
            /\ UNCHANGED map
       ELSE /\ timers' = [timers EXCEPT ![i].pc = "done", ![i].sentOk = FALSE]
            /\ map' = out.map
            /\ UNCHANGED <<panics, dataPoisoned>>
    /\ UNCHANGED <<now, adds, removes, ticks, tasks, dataLock, tasksPoisoned, hs,
                   loaded_table, disk, snapAlive, snapLog, cancelled>>

\* a repeating reminder: is there still a set for the location?
FireCheck(i) ==
    /\ timers[i].pc = "sent"
    /\ timers[i].reminder.interval # NoRepeat
    /\ dataLock = 0
    /\ IF dataPoisoned
       THEN /\ timers' = [timers EXCEPT ![i].pc = "panicked", ![i].sentOk = FALSE]
            /\ panics' = panics \cup {"fire: data lock poisoned"}
       ELSE /\ timers' = [timers EXCEPT
                 ![i].pc = IF timers[i].loc \in DOMAIN map THEN "checked" ELSE "done",
                 ![i].sentOk = timers[i].loc \in DOMAIN map /\ timers[i].sentOk]
            /\ UNCHANGED panics
    /\ UNCHANGED <<now, adds, removes, ticks, map, tasks, dataLock, dataPoisoned, tasksPoisoned, hs,
                   loaded_table, disk, snapAlive, snapLog, cancelled>>

\* the reminder with its repeat index increased
NewReminder(r) == [r EXCEPT !.index = increment_index(r.index)]

\* replace the stored reminder by the one with the higher index, then arm it:
\* a past due instant is an error that is dropped, else a new task is spawned
FireReplace(i) ==
    /\ timers[i].pc = "checked"
    /\ dataLock = 0
    /\ LET loc == timers[i].loc
           new == NewReminder(timers[i].reminder)
       IN
       IF dataPoisoned
       THEN /\ timers' = [timers EXCEPT ![i].pc = "panicked", ![i].sentOk = FALSE]
            /\ panics' = panics \cup {"fire: data lock poisoned"}
            /\ UNCHANGED <<map, dataPoisoned>>
       ELSE IF loc \notin DOMAIN map
       THEN /\ timers' = [timers EXCEPT ![i].pc = "panicked", ![i].sentOk = FALSE]
            /\ panics' = panics \cup {"fire: get_reminders_mut unwrap"}
            /\ dataPoisoned' = TRUE
            /\ UNCHANGED map
       ELSE /\ map' = MapInsert(map, loc, SetReplace(map[loc], new))
            /\ IF CanArm(new)
               THEN timers' = Append([timers EXCEPT ![i].pc = "spawned",
                                                      ![i].handle = Len(timers) + 1],
                                     NewTimer(loc, new))
               ELSE timers' = [timers EXCEPT ![i].pc = "done", ![i].sentOk = FALSE]
            /\ UNCHANGED <<panics, dataPoisoned>>
    /\ UNCHANGED <<now, adds, removes, ticks, tasks, dataLock, tasksPoisoned, hs,
                   loaded_table, disk, snapAlive, snapLog, cancelled>>

\* file the new task's handle under the reminder's key
FireInsert(i) ==
    /\ timers[i].pc = "spawned"
    /\ IF tasksPoisoned
       THEN /\ timers' = [timers EXCEPT ![i].pc = "panicked", ![i].sentOk = FALSE]
            /\ panics' = panics \cup {"fire: tasks lock poisoned"}
            /\ UNCHANGED tasks
       ELSE /\ tasks' = TasksInsert(tasks, timers[i].reminder, timers[i].handle)
            /\ timers' = [timers EXCEPT ![i].pc = "done", ![i].sentOk = FALSE]
            /\ UNCHANGED panics
    /\ UNCHANGED <<now, adds, removes, ticks, map, dataLock, dataPoisoned, tasksPoisoned, hs,
                   loaded_table, disk, snapAlive, snapLog, cancelled>>

----------------------------------------------------------------------------
(* commands/reminder.rs: the add command                                   *)

\* the lengths, in characters, of the text an add command may carry
Texts == {MaxTextLen, MaxTextLen + 1}

\* text.is_some_and(|s| s.chars().count() > 4096)
TextNeverTooLong(text) == FALSE

TextTooLong(text) == text > MaxTextLen

\* the checks of add, add_reminder under the data lock, and
\* schedule_reminder_message up to the spawn, whose error add drops
Add(h, loc, datetime, interval, text) ==
    /\ Free(h)
    /\ adds < MaxAdds
    /\ adds' = adds + 1
    /\ dataLock = 0
    /\ LET reminder == Reminder(datetime, interval, 0, adds + 1) IN
       IF datetime <= now \/ TextTooLong(text)
       THEN UNCHANGED <<map, timers, hs, panics>>
       ELSE IF dataPoisoned
       THEN /\ panics' = panics \cup {"add: data lock poisoned"}
            /\ UNCHANGED <<map, timers, hs>>
       ELSE /\ map' = add_reminder(map, loc, reminder)
            /\ IF CanArm(reminder)
               THEN /\ timers' = Append(timers, NewTimer(loc, reminder))
                    /\ hs' = [hs EXCEPT ![h] = [pc |-> "add_insert", loc |-> loc,
                                  reminder |-> reminder, handle |-> Len(timers) + 1]]
               ELSE UNCHANGED <<timers, hs>>
            /\ UNCHANGED panics
    /\ UNCHANGED <<now, removes, ticks, tasks, dataLock, dataPoisoned, tasksPoisoned,
                   loaded_table, disk, snapAlive, snapLog, cancelled>>

\* schedule_reminder_message: the handle goes into the tasks map
AddInsert(h) ==
    /\ hs[h].pc = "add_insert"
    /\ IF tasksPoisoned
       THEN /\ panics' = panics \cup {"add: tasks lock poisoned"}
            /\ UNCHANGED tasks
       ELSE /\ tasks' = TasksInsert(tasks, hs[h].reminder, hs[h].handle)
            /\ UNCHANGED panics
    /\ hs' = [hs EXCEPT ![h] = IdleHandler]
    /\ UNCHANGED <<now, adds, removes, ticks, map, timers, dataLock, dataPoisoned, tasksPoisoned,
                   loaded_table, disk, snapAlive, snapLog, cancelled>>

----------------------------------------------------------------------------
(* commands/reminder.rs: the remove command                                *)

\* the location's set is cloned under the data lock and the id-th reminder
\* in the set's iteration order, which is arbitrary, is picked
RemoveStart(h, loc, id) ==
    /\ Free(h)
    /\ removes < MaxRemoves
    /\ removes' = removes + 1
    /\ dataLock = 0
    /\ IF id < 1
       THEN UNCHANGED <<hs, panics>>
       ELSE IF dataPoisoned
       THEN /\ panics' = panics \cup {"remove: data lock poisoned"}
            /\ UNCHANGED hs
       ELSE IF loc \notin DOMAIN map \/ id > Cardinality(map[loc])
       THEN UNCHANGED <<hs, panics>>
       ELSE /\ \E reminder \in map[loc] :
                 hs' = [hs EXCEPT ![h] = [pc |-> "remove_lock", loc |-> loc,
                                          reminder |-> reminder, handle |-> 0]]
            /\ UNCHANGED panics
    /\ UNCHANGED <<now, adds, ticks, map, tasks, timers, dataLock, dataPoisoned, tasksPoisoned,
                   loaded_table, disk, snapAlive, snapLog, cancelled>>

\* the data lock is taken again and kept; remove_reminder(..).unwrap()
RemoveLock(h) ==
    /\ hs[h].pc = "remove_lock"
    /\ dataLock = 0
    /\ LET out == remove_reminder(map, hs[h].loc, hs[h].reminder) IN
       IF dataPoisoned
       THEN /\ panics' = panics \cup {"remove: data lock poisoned"}
            /\ hs' = [hs EXCEPT ![h] = IdleHandler]
            /\ UNCHANGED <<map, dataLock, dataPoisoned>>
       ELSE IF out.res # "Ok"
       THEN /\ panics' = panics \cup {IF out.res = "unreachable"
                                      THEN "remove_reminder: unreachable"
                                      ELSE "remove: remove_reminder unwrap"}
            /\ dataPoisoned' = TRUE
            /\ hs' = [hs EXCEPT ![h] = IdleHandler]
            /\ UNCHANGED <<map, dataLock>>
       ELSE /\ map' = out.map
            /\ dataLock' = h
            /\ hs' = [hs EXCEPT ![h].pc = "remove_tasks"]
            /\ UNCHANGED <<panics, dataPoisoned>>
    /\ UNCHANGED <<now, adds, removes, ticks, tasks, timers, tasksPoisoned,
                   loaded_table, disk, snapAlive, snapLog, cancelled>>

\* with the data lock held: tasks.remove(reminder).unwrap(), then abort
RemoveTasks(h) ==
    /\ hs[h].pc = "remove_tasks"
    /\ dataLock = h
    /\ dataLock' = 0
    /\ hs' = [hs EXCEPT ![h] = IdleHandler]
    /\ LET r == hs[h].reminder IN
       IF tasksPoisoned
       THEN /\ panics' = panics \cup {"remove: tasks lock poisoned"}
            /\ dataPoisoned' = TRUE
            /\ UNCHANGED <<tasks, timers, tasksPoisoned, cancelled>>
       ELSE IF Key(r) \notin DOMAIN tasks
       THEN /\ panics' = panics \cup {"remove: tasks.remove unwrap"}
            /\ dataPoisoned' = TRUE
            /\ tasksPoisoned' = TRUE
            /\ UNCHANGED <<tasks, timers, cancelled>>
       ELSE /\ tasks' = TasksRemove(tasks, r)
            /\ timers' = Abort(timers, tasks[Key(r)])
            /\ cancelled' = cancelled \cup
                 {[loc |-> hs[h].loc, key |-> Key(r), upto |-> adds,
                   preDue |-> now < DueOf(r)]}
            /\ UNCHANGED <<panics, dataPoisoned, tasksPoisoned>>
    /\ UNCHANGED <<now, adds, removes, ticks, map, loaded_table, disk, snapAlive, snapLog>>

----------------------------------------------------------------------------
(* commands/reminder.rs: the list and info commands                        *)

\* list builds its reply from the location's set with the data lock held
list(h) ==
    /\ Free(h)
    /\ dataLock = 0
    /\ IF dataPoisoned
       THEN /\ panics' = panics \cup {"list: data lock poisoned"}
            /\ UNCHANGED <<hs, dataLock>>
       ELSE /\ hs' = [hs EXCEPT ![h].pc = "list"]
            /\ dataLock' = h
            /\ UNCHANGED panics
    /\ UNCHANGED <<now, adds, removes, ticks, map, tasks, timers, dataPoisoned, tasksPoisoned,
                   loaded_table, disk, snapAlive, snapLog, cancelled>>

\* info clones the location's set with the data lock held
info(h) ==
    /\ Free(h)
    /\ dataLock = 0
    /\ IF dataPoisoned
       THEN /\ panics' = panics \cup {"info: data lock poisoned"}
            /\ UNCHANGED <<hs, dataLock>>
       ELSE /\ hs' = [hs EXCEPT ![h].pc = "info"]
            /\ dataLock' = h
            /\ UNCHANGED panics
    /\ UNCHANGED <<now, adds, removes, ticks, map, tasks, timers, dataPoisoned, tasksPoisoned,
                   loaded_table, disk, snapAlive, snapLog, cancelled>>

\* the guard of list or info goes out of scope
ReadDone(h) ==
    /\ hs[h].pc \in {"list", "info"}
    /\ dataLock = h
    /\ dataLock' = 0
    /\ hs' = [hs EXCEPT ![h] = IdleHandler]
    /\ UNCHANGED <<now, adds, removes, ticks, map, tasks, timers, dataPoisoned, tasksPoisoned,
                   loaded_table, disk, snapAlive, snapLog, cancelled, panics>>

----------------------------------------------------------------------------
(* The two mutexes: what each actor holds and what its next step locks     *)

\* a command handler: remove keeps the data guard while it locks the tasks
\* map, list and info hold the data guard alone, add holds none when
\* schedule_reminder_message locks the tasks map
HandlerHolds(h) ==
    IF hs[h].pc \in {"remove_tasks", "list", "info"} THEN {"data"} ELSE {}

HandlerWants(h) ==
    CASE hs[h].pc = "remove_lock"                   -> {"data"}
      [] hs[h].pc \in {"remove_tasks", "add_insert"} -> {"tasks"}
      [] OTHER                                      -> {}

\* a timer task: each lock is taken in a block of its own
TimerLocksTasksFirst(i) == IF timers[i].pc = "checked" THEN {"tasks"} ELSE {}

TimerHolds(i) == {}

TimerWants(i) ==
    CASE timers[i].pc \in {"sent", "checked"} -> {"data"}
      [] timers[i].pc = "spawned"             -> {"tasks"}
      [] OTHER                                -> {}

\* the snapshot loop locks the data mutex for the clone and holds nothing else
SnapshotWants == IF snapAlive THEN {"data"} ELSE {}

\* the actors, and the locks of each
Actors ==
    {<<"handler", h>> : h \in Handlers} \cup {<<"timer", i>> : i \in TimerIds}
        \cup {<<"snapshot", 0>>}

Holds(a) ==
    CASE a[1] = "handler" -> HandlerHolds(a[2])
      [] a[1] = "timer"   -> TimerHolds(a[2])
      [] OTHER            -> {}

Wants(a) ==
    CASE a[1] = "handler" -> HandlerWants(a[2])
      [] a[1] = "timer"   -> TimerWants(a[2])
      [] OTHER            -> SnapshotWants

----------------------------------------------------------------------------
(* main.rs: the snapshot loop                                              *)

\* loaded_table = copy: the table just cloned becomes the last persisted one
KeepOldPersisted(copy, old) == old

LastPersisted(copy, old) == copy

\* the record of a turn of the loop that cloned copy
Turn(copy, wrote) ==
    <<[before |-> IF snapLog = <<>> THEN <<>> ELSE <<snapLog[1].copy>>,
       copy |-> copy, wrote |-> wrote]>>

\* one turn of the loop: clone the table under the lock, and write it out
\* when it does not equal the last persisted one; io is what the file
\* system does to File::create and to_writer
Snapshot(io) ==
    /\ snapAlive
    /\ dataLock = 0
    /\ IF dataPoisoned
       THEN /\ io = "ok"
            /\ snapAlive' = FALSE
            /\ panics' = panics \cup {"snapshot: data lock poisoned"}
            /\ UNCHANGED <<loaded_table, disk, snapLog>>
       ELSE LET copy == map IN
            IF ~TableEq(copy, loaded_table)
            THEN /\ loaded_table' = LastPersisted(copy, loaded_table)
                 /\ snapLog' = Turn(copy, TRUE)
                 /\ disk' = CASE io = "ok" -> [ok |-> TRUE, table |-> copy]
                              [] io = "create failed" -> disk
                              [] OTHER -> [ok |-> FALSE, table |-> EmptyTable]
                 /\ snapAlive' = (io = "ok")
                 /\ panics' = IF io = "ok" THEN panics ELSE panics \cup {"snapshot: " \o io}
            ELSE /\ io = "ok"
                 /\ snapLog' = Turn(copy, FALSE)
                 /\ UNCHANGED <<loaded_table, disk, snapAlive, panics>>
    /\ UNCHANGED <<now, adds, removes, ticks, map, tasks, timers, dataLock, dataPoisoned,
                   tasksPoisoned, hs, cancelled>>

----------------------------------------------------------------------------
(* The clock                                                               *)

\* the instants the clock is observed at
TimePoints ==
    Targets \cup {t + 1 : t \in Targets}
            \cup {timers[i].due : i \in {j \in TimerIds : Sleeping(j)}}

\* the clock moves on to a later instant, not past a sleeping task's due
\* instant, and not while a handler or a fire sequence is under way
Tick(t) ==
    /\ ticks < MaxTicks
    /\ ticks' = ticks + 1
    /\ t > now
    /\ \A h \in Handlers : hs[h].pc = "idle"
    /\ \A i \in TimerIds :
         /\ ~InFlight(i)
         /\ Sleeping(i) => timers[i].due > now /\ timers[i].due >= t
    /\ now' = t
    /\ UNCHANGED <<adds, removes, map, tasks, timers, dataLock, dataPoisoned, tasksPoisoned, hs,
                   loaded_table, disk, snapAlive, snapLog, cancelled, panics>>

----------------------------------------------------------------------------

\* the intervals the add command offers, and no interval
Kinds == Interval \cup {NoRepeat}

\* the command handlers, for commands in the locations L with the kinds K
Commands(L, K) ==
    \/ \E h \in Handlers, loc \in L, datetime \in Targets, interval \in K, text \in Texts :
         Add(h, loc, datetime, interval, text)
    \/ \E h \in Handlers : AddInsert(h)
    \/ \E h \in Handlers, loc \in L, id \in 0..3 : RemoveStart(h, loc, id)
    \/ \E h \in Handlers : RemoveLock(h)
    \/ \E h \in Handlers : RemoveTasks(h)

\* the spawned timer tasks
TimerTasks ==
    \/ \E i \in TimerIds : Fire(i)
    \/ \E i \in TimerIds : FireRemove(i)
    \/ \E i \in TimerIds : FireCheck(i)
    \/ \E i \in TimerIds : FireReplace(i)
    \/ \E i \in TimerIds : FireInsert(i)

Next ==
    \/ Commands(Locs, Kinds)
    \/ TimerTasks
    \/ \E t \in TimePoints : Tick(t)

\* the scheduler after a first start, without the snapshot loop
Spec == Init /\ [][Next]_vars

NextPersist ==
    \/ Commands({"A"}, {"Daily", NoRepeat})
    \/ TimerTasks
    \/ \E t \in TimePoints : Tick(t)
    \/ \E io \in {"ok", "create failed", "write failed"} : Snapshot(io)

\* the process with its file: any start, the snapshot loop, and commands
\* for one location with a repeating and a non-repeating kind
SpecPersist == InitPersist /\ [][NextPersist]_vars

NextLocks ==
    \/ Commands({"A"}, {"Daily", NoRepeat})
    \/ \E h \in Handlers : list(h)
    \/ \E h \in Handlers : info(h)
    \/ \E h \in Handlers : ReadDone(h)
    \/ TimerTasks
    \/ \E t \in TimePoints : Tick(t)
    \/ Snapshot("ok")

\* every user of the two mutexes after a first start: the commands add,
\* remove, list and info, the timer tasks and the snapshot loop
SpecLocks == Init /\ [][NextLocks]_vars

\* one reminder of a repeating kind, added for any of the anchors, and the
\* clock moving from one of its due instants to the next
NextRepeat ==
    \/ \E datetime \in Anchors, interval \in Interval :
         adds < 1 /\ Add(1, "A", datetime, interval, MaxTextLen)
    \/ AddInsert(1)
    \/ \E i \in TimerIds : Fire(i)
    \/ \E i \in TimerIds : FireCheck(i)
    \/ \E i \in TimerIds : FireReplace(i)
    \/ \E i \in TimerIds : FireInsert(i)
    \/ \E i \in TimerIds : Sleeping(i) /\ Tick(timers[i].due)

\* the successive occurrences of one repeating reminder
SpecRepeat == Init /\ [][NextRepeat]_vars

----------------------------------------------------------------------------
(* Properties                                                              *)

\* the location's set holds a reminder equal to r
InTable(tbl, loc, r) == loc \in DOMAIN tbl /\ SetContains(tbl[loc], r)

\* a remove command has picked the reminder of timer record t and is under way
Cancelling(t) ==
    \E h \in Handlers :
        /\ hs[h].pc \in {"remove_lock", "remove_tasks"}
        /\ hs[h].loc = t.loc
        /\ ReminderEq(hs[h].reminder, t.reminder)

\* no remove command has been aimed at the reminder of timer record t
Uncancelled(t) == CancelsOf(t) = {} /\ ~Cancelling(t)

\* the task of timer record t has sent its reminder
Delivered(t) == t.pc \in {"sent", "checked", "spawned", "done", "panicked"}

\* C1: every reminder held in the table has at most one sleeping timer task
\* for its location and identity, whatever adds, fires and removes came before
C1_OneLiveTimerPerReminder ==
    \A loc \in DOMAIN map : \A r \in map[loc] :
        Cardinality({i \in TimerIds : /\ Sleeping(i)
                                      /\ timers[i].loc = loc
                                      /\ ReminderEq(timers[i].reminder, r)}) <= 1

\* C2: once a remove of an armed repeating reminder has completed before the
\* reminder's due instant, no timer delivers that reminder, and when such a
\* remove completes neither the table nor the tasks map holds the reminder
C2_NoDeliveryAfterCancel ==
    [][/\ \A i \in 1..Len(timers') :
            timers'[i].reminder.interval # NoRepeat
            => timers'[i].afterCancel # "preDue"
       /\ \A h \in Handlers :
            ( /\ hs[h].pc = "remove_tasks"
              /\ hs'[h].pc = "idle"
              /\ panics' = panics
              /\ hs[h].reminder.interval # NoRepeat
              /\ now < DueOf(hs[h].reminder) )
            => /\ ~InTable(map', hs[h].loc, hs[h].reminder)
               /\ Key(hs[h].reminder) \notin DOMAIN tasks']_vars

\* C3: when the fire sequence of a repeating reminder that no remove was aimed
\* at ends, the table holds the reminder with its index one higher and the
\* tasks map holds, under its key, a sleeping timer for the next occurrence
C3_FiredRepeatingIsRearmed ==
    [][\A i \in TimerIds :
         ( /\ InFlight(i)
           /\ timers'[i].pc \in {"done", "panicked"}
           /\ timers[i].reminder.interval # NoRepeat
           /\ Uncancelled(timers[i]) )
         => LET loc == timers[i].loc
                new == NewReminder(timers[i].reminder)
            IN  /\ loc \in DOMAIN map'
                /\ \E s \in map'[loc] : ReminderEq(s, new) /\ s.index = new.index
                /\ Key(new) \in DOMAIN tasks'
                /\ timers'[tasks'[Key(new)]].pc = "sleeping"
                /\ timers'[tasks'[Key(new)]].due = DueOf(new)
                /\ DueOf(new) > timers[i].due]_vars

\* C4: when the fire sequence of a non-repeating reminder ends, neither the
\* table nor the tasks map holds an entry for the reminder
C4_FiredOneShotLeavesBothTables ==
    [][\A i \in TimerIds :
         ( /\ timers[i].pc = "sent"
           /\ timers[i].reminder.interval = NoRepeat
           /\ timers'[i].pc = "done" )
         => /\ ~InTable(map', timers[i].loc, timers[i].reminder)
            /\ Key(timers[i].reminder) \notin DOMAIN tasks']_vars

\* C5: a non-repeating reminder that was added and that no remove was aimed at
\* is not delivered before its due instant, has been delivered at that instant
\* once the clock is past it, and is out of the table once its fire is done
C5_OneShotDeliveredOnce ==
    \A i \in TimerIds :
        LET t == timers[i] IN
        (t.reminder.interval = NoRepeat /\ Uncancelled(t))
        => /\ Delivered(t) => t.sentAt >= t.due
           /\ now > t.due => Delivered(t) /\ t.sentAt = t.due
           /\ t.pc = "done" => ~InTable(map, t.loc, t.reminder)

\* what C6 asks of every state: no early delivery, and delivery at T once
\* the clock is past T
DailyDeliveredAtT ==
    \A i \in TimerIds :
        LET t == timers[i] IN
        (t.reminder.interval = "Daily" /\ t.reminder.index = 0 /\ Uncancelled(t))
        => /\ Delivered(t) => t.sentAt = t.due
           /\ now > t.due => Delivered(t)

\* C6: a daily reminder added for T, that no remove was aimed at, is delivered
\* at T and not otherwise, and when that fire ends the table holds the same
\* identity with index 1, due one day after T
C6_DailyFiresOnceThenIndexOne ==
    [][/\ DailyDeliveredAtT'
       /\ \A i \in TimerIds :
            ( /\ InFlight(i)
              /\ timers'[i].pc \in {"done", "panicked"}
              /\ timers[i].reminder.interval = "Daily"
              /\ timers[i].reminder.index = 0
              /\ Uncancelled(timers[i]) )
            => /\ timers[i].loc \in DOMAIN map'
               /\ \E s \in map'[timers[i].loc] :
                     /\ ReminderEq(s, timers[i].reminder)
                     /\ s.index = 1
                     /\ DueOf(s) = timers[i].reminder.target_date + 86400]_vars

\* C7: every reminder loaded from the file whose due instant is still ahead
\* has a sleeping timer filed under its key in the tasks map
C7_LoadedReminderIsArmed ==
    \A loc \in DOMAIN map : \A r \in map[loc] :
        (r.meta = 0 /\ DueOf(r) > now)
        => /\ Key(r) \in DOMAIN tasks
           /\ timers[tasks[Key(r)]].pc = "sleeping"
           /\ timers[tasks[Key(r)]].due = DueOf(r)

\* C8: a turn of the snapshot loop that finds the table different in any
\* value from the last persisted one, and whose file writes succeed, leaves
\* the table in the file and as the last persisted one
C8_ChangedTableIsWritten ==
    [][( /\ Snapshot("ok")
         /\ ~dataPoisoned
         /\ map # loaded_table )
       => /\ disk' = [ok |-> TRUE, table |-> map]
          /\ loaded_table' = map]_vars

\* C9: a turn of the snapshot loop that clones the very table the turn
\* before it cloned does not call File::create
C9_NoWriteWithoutChange ==
    (snapLog # <<>> /\ snapLog[1].before = <<snapLog[1].copy>>) => ~snapLog[1].wrote

\* a turn wrote a table with a reminder in it, and the next turn found that
\* table again and wrote nothing
C9_Witness ==
    /\ snapLog # <<>>
    /\ snapLog[1].before = <<snapLog[1].copy>>
    /\ ~snapLog[1].wrote
    /\ snapLog[1].copy # EmptyTable
    /\ disk = [ok |-> TRUE, table |-> snapLog[1].copy]

\* C10: no location of the table maps to the empty set, and remove_reminder
\* never reaches its unreachable!() arm
C10_NoEmptySet ==
    /\ \A loc \in DOMAIN map : map[loc] # {}
    /\ "remove_reminder: unreachable" \notin panics

\* a remove command took the last reminder of a location, whose key is gone
\* from the table, while another location still holds a reminder
C10_Witness ==
    /\ \E c \in cancelled : c.loc \notin DOMAIN map
    /\ map # EmptyTable

\* every reminder identity a command can name
Identities == {Reminder(t, k, 0, 0) : t \in Targets, k \in Kinds}

\* C11: remove_reminder of a location without a set gives the no-location
\* error, of a location whose set lacks the reminder gives the not-present
\* error, and in both cases the table it leaves is the table it found; the
\* remove command and the fire of a non-repeating reminder, which call it,
\* leave the table as it was when it fails
C11_FailedRemoveMutatesNothing ==
    [][/\ \A loc \in Locs : \A r \in Identities :
            LET out == remove_reminder(map, loc, r) IN
            /\ loc \notin DOMAIN map
               => out.res = "NoLocation" /\ out.map = map
            /\ (loc \in DOMAIN map /\ ~SetContains(map[loc], r))
               => out.res = "NotPresent" /\ out.map = map
       /\ \A h \in Handlers :
            ( /\ hs[h].pc = "remove_lock" /\ hs'[h].pc = "idle"
              /\ ~InTable(map, hs[h].loc, hs[h].reminder) )
            => map' = map
       /\ \A i \in TimerIds :
            ( /\ timers[i].pc = "sent" /\ timers'[i].pc \in {"done", "panicked"}
              /\ timers[i].reminder.interval = NoRepeat
              /\ ~InTable(map, timers[i].loc, timers[i].reminder) )
            => map' = map]_vars

\* remove_reminder has failed inside a remove command on a reminder that a
\* fire had taken out of the table, and the table still holds a reminder
C11_Witness ==
    /\ "remove: remove_reminder unwrap" \in panics
    /\ map # EmptyTable

\* C12: add_reminder of a reminder equal in target instant and interval to
\* one the location's set holds, whatever its index and other fields, leaves
\* the set's size as it was; so does an add command that names such a one
C12_EqualIdentityDoesNotGrowSet ==
    [][/\ \A loc \in DOMAIN map : \A r \in map[loc] :
            \A index \in 0..2 : \A meta \in {0, adds + 1} :
                LET second == Reminder(r.target_date, r.interval, index, meta) IN
                Cardinality(add_reminder(map, loc, second)[loc]) = Cardinality(map[loc])
       /\ \A h \in Handlers :
            ( /\ adds' = adds + 1 /\ hs[h].pc = "idle" /\ hs'[h].pc = "add_insert"
              /\ InTable(map, hs'[h].loc, hs'[h].reminder) )
            => Cardinality(map'[hs'[h].loc]) = Cardinality(map[hs'[h].loc])]_vars

\* two add commands for one location and one identity have been accepted,
\* and the location's set holds one reminder
C12_Witness ==
    \E i, j \in TimerIds :
        /\ i < j
        /\ timers[i].loc = timers[j].loc
        /\ ReminderEq(timers[i].reminder, timers[j].reminder)
        /\ timers[i].reminder.meta # timers[j].reminder.meta
        /\ timers[i].loc \in DOMAIN map
        /\ Cardinality(map[timers[i].loc]) = 1

\* C13: a remove command that finds no handle filed under its reminder, the
\* tasks mutex being sound, ends without a panic, and leaves both mutexes fit
\* for the commands and fires that come after it
C13_MissingHandleIsAnError ==
    [][\A h \in Handlers :
         ( /\ hs[h].pc = "remove_tasks"
           /\ hs'[h].pc = "idle"
           /\ ~tasksPoisoned
           /\ Key(hs[h].reminder) \notin DOMAIN tasks )
         => /\ panics' = panics
            /\ ~dataPoisoned'
            /\ ~tasksPoisoned']_vars

\* the reminders held by the table and by the timer tasks
Occurrences ==
    {timers[i].reminder : i \in TimerIds} \cup UNION {map[loc] : loc \in DOMAIN map}

\* C14: for every interval kind, next at index 0 is the anchor: for each
\* anchor, and for the due instant of each task armed at index 0
C14_NextAtIndexZeroIsAnchor ==
    /\ \A a \in Anchors : \A k \in Interval : next(k, 0, a) = a
    /\ \A i \in TimerIds :
         (timers[i].reminder.interval # NoRepeat /\ timers[i].reminder.index = 0)
         => timers[i].due = timers[i].reminder.target_date

\* a yearly reminder anchored on the leap day sleeps until that very instant
C14_Witness ==
    \E i \in TimerIds :
        /\ Sleeping(i)
        /\ timers[i].reminder.interval = "Yearly"
        /\ timers[i].reminder.index = 0
        /\ timers[i].reminder.target_date = At(2024, 2, 29, 43200)
        /\ timers[i].due = At(2024, 2, 29, 43200)

\* C15: the due instant of an hourly reminder at index k is its anchor
\* advanced by k hours
C15_HourlyAdvancesByIndexHours ==
    \A r \in Occurrences :
        r.interval = "Hourly" => DueOf(r) = r.target_date + 3600 * r.index

\* C16: the due instant of a daily reminder at index k is its anchor plus k
\* days of 86400 seconds, and of a weekly one its anchor plus 7*k such days:
\* for each anchor and index, and for each task armed
C16_DailyWeeklyAdvanceByWholeDays ==
    /\ \A a \in Anchors : \A k \in 0..(MaxTicks + 1) :
         /\ next("Daily", k, a) = a + 86400 * k
         /\ next("Weekly", k, a) = a + 7 * 86400 * k
    /\ \A i \in TimerIds :
         LET r == timers[i].reminder IN
         /\ r.interval = "Daily" => timers[i].due = r.target_date + 86400 * r.index
         /\ r.interval = "Weekly" => timers[i].due = r.target_date + 7 * 86400 * r.index

\* a daily reminder anchored on the last second of 2024 has fired and sleeps
\* until its second occurrence, on the first day of 2025
C16_Witness ==
    \E i \in TimerIds :
        /\ Sleeping(i)
        /\ timers[i].reminder.interval = "Daily"
        /\ timers[i].reminder.index = 1
        /\ timers[i].reminder.target_date = At(2024, 12, 31, 86399)
        /\ CivilFromDays(timers[i].due \div 86400) = <<2025, 1, 1>>

\* C17: an add command whose target instant is not ahead of the clock, or
\* whose text is longer than the limit, leaves the table and the tasks map
\* as they were and spawns no task
C17_RejectedAddMutatesNothing ==
    [][\A h \in Handlers : \A loc \in Locs : \A datetime \in Targets :
       \A interval \in Kinds : \A text \in Texts :
         ( /\ Add(h, loc, datetime, interval, text)
           /\ (datetime <= now \/ text > MaxTextLen) )
         => UNCHANGED <<map, tasks, timers>>]_vars

\* the one add command received so far carried a text over the limit, and
\* nothing has been stored or spawned
C17_Witness ==
    /\ adds = 1
    /\ now = StartTime
    /\ panics = {}
    /\ map = EmptyTable
    /\ timers = <<>>
    /\ tasks = [k \in {} |-> 0]

\* C18: when the file cannot be read or decoded, the process starts, and
\* before any command, fire or snapshot its table and its last persisted
\* table are both the empty table
C18_FailedLoadStartsEmpty ==
    (adds = 0 /\ removes = 0 /\ ticks = 0 /\ snapLog = <<>> /\ ~disk.ok)
    => (map = EmptyTable /\ loaded_table = EmptyTable)

\* the process has started on a file that was cut short while a table with
\* a reminder was written to it
C18_Witness ==
    /\ disk \in CorruptFiles
    /\ adds = 0 /\ removes = 0 /\ ticks = 0 /\ snapLog = <<>>
    /\ map = EmptyTable
    /\ loaded_table = EmptyTable
    /\ snapAlive

\* File::create or to_writer has failed in the snapshot loop
WriteFailed ==
    \E p \in {"snapshot: create failed", "snapshot: write failed"} : p \in panics

\* C19: once a snapshot turn has failed to create or write the file, no
\* command is taken up or carried on and no timer task fires or goes on
C19_WriteFailureStopsEverything ==
    [][WriteFailed => UNCHANGED <<adds, removes, hs, timers, map, tasks>>]_vars

\* the set of location loc holds a reminder filed under key
KeyInTable(tbl, loc, key) == loc \in DOMAIN tbl /\ \E s \in tbl[loc] : Key(s) = key

\* C20: a reminder that a completed remove command took out of the table
\* comes back into the table only by the step of an add command, and its
\* key comes back into the tasks map only when an add command files its
\* handle; the steps of a timer task bring neither back
C20_CancelledStaysOut ==
    [][\A c \in cancelled :
         /\ ( /\ ~KeyInTable(map, c.loc, c.key)
              /\ KeyInTable(map', c.loc, c.key) )
            => adds' = adds + 1
         /\ ( /\ c.key \notin DOMAIN tasks
              /\ c.key \in DOMAIN tasks' )
            => \E h \in Handlers : hs[h].pc = "add_insert" /\ hs'[h].pc = "idle"]_vars

C22_FailedSendDoesNotStopFire ==
    [][\A i \in TimerIds :
         /\ (Sleeping(i) /\ timers'[i].sentAt > 0) => timers'[i].pc = "sent"
         /\ ( /\ timers[i].pc = "sent" /\ ~timers[i].sentOk
              /\ timers[i].reminder.interval = NoRepeat
              /\ timers'[i].pc = "done" )
            => ~InTable(map', timers[i].loc, timers[i].reminder)
         /\ ( /\ timers[i].pc = "sent" /\ ~timers[i].sentOk
              /\ timers[i].reminder.interval # NoRepeat
              /\ timers'[i].pc # "sent"
              /\ ~dataPoisoned /\ timers[i].loc \in DOMAIN map )
            => timers'[i].pc = "checked"
         /\ ( /\ timers[i].pc = "checked" /\ ~timers[i].sentOk
              /\ timers'[i].pc \in {"spawned", "done"} )
            => LET new == NewReminder(timers[i].reminder) IN
               /\ new \in map'[timers[i].loc]
               /\ IF DueOf(new) > now
                  THEN /\ timers'[i].pc = "spawned"
                       /\ timers'[timers'[i].handle].pc = "sleeping"
                       /\ timers'[timers'[i].handle].reminder = new
                  ELSE timers'[i].pc = "done"]_vars

\* the send of a repeating reminder failed, and the task has replaced the
\* stored reminder and spawned the task for the next occurrence
C22_Witness ==
    \E i \in TimerIds :
        /\ timers[i].pc = "spawned"
        /\ ~timers[i].sentOk
        /\ timers[timers[i].handle].pc = "sleeping"
        /\ timers[timers[i].handle].reminder.index = timers[i].reminder.index + 1
        /\ NewReminder(timers[i].reminder) \in map[timers[i].loc]

\* C23: add_reminder of a reminder whose identity is stored at the location
\* leaves the table as it is, index and other fields of the stored reminder
\* included, in the function and in the add command; the replace of a fire
\* sequence leaves exactly the copy with the next index under that identity
C23_AddKeepsStoredFireReplaces ==
    [][/\ \A loc \in DOMAIN map : \A r \in map[loc] :
            \A index \in 0..2 : \A meta \in 0..MaxAdds :
                add_reminder(map, loc,
                    Reminder(r.target_date, r.interval, index, meta)) = map
       /\ \A h \in Handlers :
            ( /\ hs[h].pc = "idle" /\ hs'[h].pc = "add_insert"
              /\ InTable(map, hs'[h].loc, hs'[h].reminder) )
            => map' = map
       /\ \A i \in TimerIds :
            (timers[i].pc = "checked" /\ timers'[i].pc \in {"spawned", "done"})
            => {s \in map'[timers[i].loc] : ReminderEq(s, timers[i].reminder)}
                   = {NewReminder(timers[i].reminder)}]_vars

\* a second add of a stored identity at the same location was accepted and
\* the stored reminder is still the first add's
C23_Witness ==
    \E h \in Handlers :
        /\ hs[h].pc = "add_insert"
        /\ hs[h].reminder.meta = 2
        /\ hs[h].loc \in DOMAIN map
        /\ \E s \in map[hs[h].loc] : ReminderEq(s, hs[h].reminder) /\ s.meta = 1
        /\ \A s \in map[hs[h].loc] : s.meta # 2

\* C24: a reminder is never sent before the due instant computed for it, the
\* target date of a non-repeating one and next at the stored index of a
\* repeating one, and a task aborted in its sleep never sends and never moves
C24_NoEarlyDeliveryNoneAfterAbort ==
    [][\A i \in TimerIds :
         /\ timers'[i].sentAt > 0
            => /\ timers'[i].sentAt >= DueOf(timers'[i].reminder)
               /\ timers'[i].sentAt >= timers'[i].due
         /\ (Sleeping(i) /\ ~Sleeping(i)')
            => \/ timers'[i].pc = "aborted" /\ timers'[i].sentAt = 0
               \/ timers'[i].sentAt = now /\ now >= DueOf(timers[i].reminder)
         /\ timers[i].pc = "aborted"
            => timers'[i] = timers[i] /\ timers[i].sentAt = 0]_vars

\* one task has sent its reminder at the due instant, and another was aborted
\* in its sleep and has sent nothing though the clock has reached its due
C24_Witness ==
    \E i, j \in TimerIds :
        /\ timers[i].sentAt = DueOf(timers[i].reminder)
        /\ timers[j].pc = "aborted"
        /\ timers[j].sentAt = 0
        /\ now >= timers[j].due

\* C25: a remove at one location leaves the sleeping timers of the other
\* locations asleep and takes no handle of theirs from the tasks map, and
\* the timer it aborts is the one of the removed reminder's own location
C25_CancelIsPerLocation ==
    [][\A h \in Handlers :
         ( /\ hs[h].pc = "remove_tasks" /\ hs'[h].pc = "idle"
           /\ ~tasksPoisoned
           /\ Key(hs[h].reminder) \in DOMAIN tasks )
         => /\ timers[tasks[Key(hs[h].reminder)]].loc = hs[h].loc
            /\ \A i \in TimerIds :
                 (Sleeping(i) /\ timers[i].loc # hs[h].loc)
                 => /\ timers'[i].pc = "sleeping"
                    /\ \A k \in DOMAIN tasks : tasks[k] = i => k \in DOMAIN tasks']_vars

\* the panics of the unwraps a remove and a fire sequence can trip over
RacePanics ==
    {"remove: remove_reminder unwrap", "remove: tasks.remove unwrap",
     "fire: get_reminders_mut unwrap"}

\* C26: with every add finished, no step of a remove or of a fire sequence
\* panics at remove_reminder(..).unwrap(), tasks.remove(..).unwrap() or
\* get_reminders_mut(..).unwrap(), and neither mutex becomes poisoned
C26_RemoveAndFireNeverPanic ==
    [][( /\ \A h \in Handlers : hs[h].pc # "add_insert"
         /\ ~dataPoisoned /\ ~tasksPoisoned )
       => /\ panics' \cap RacePanics = panics \cap RacePanics
          /\ ~dataPoisoned' /\ ~tasksPoisoned']_vars

====
